---- MODULE Spec2Model ----
(***************************************************************************)
(* The CPR functions: snapshot orchestration of the rankings and NIV       *)
(* endpoints (functions index.ts, the variant with the Python pipeline),   *)
(* the rankings handler with the week parameter, the result built from a   *)
(* stored snapshot, the chat function, the pipeline child process, the     *)
(* cache decision and the Ingram index; and of the web client (app.js)     *)
(* the chat requests, the reading of the event stream, the saving of       *)
(* messages and the current conversation.                                  *)
(*                                                                         *)
(* Time is counted in ticks of 300 seconds: the platform timeout of the    *)
(* rankings and NIV functions (timeoutSeconds: 300) is one tick and the    *)
(* one-hour freshness window is twelve ticks.                              *)
(***************************************************************************)
EXTENDS Integers, FiniteSets, Sequences, TLC

\* ---- bounds of the model ----
MaxRequests == 2
MaxTime == 1
NumLeagues == 2
MaxWeek == 2
MaxQueryLen == 2
MaxTeams == 4
MaxScore == 2
MaxChunks == 4
NumPositions == 3
MaxStarters == 4
MaxBench == 2
MaxExitCode == 2
MaxOutput == 3
MaxAge == 13
MaxSkew == 1
MaxDeltas == 2
MaxSaves == 2
MaxTokens == 2
MaxSends == 2
MaxConversations == 3

\* ---- program constants, in ticks of 300 s ----
WindowTicks == 12
TimeoutTicks == 1

\* defaults of the rankings result, in thousandths
DefaultHealth == 926
DefaultGini == 74

Leagues == 1..NumLeagues
ReqIds == 1..MaxRequests

\* DEFAULT_LEAGUE_ID, the league of the snapshot found at start-up
DefaultLeague == 1

\* calculation_timestamp of a snapshot found at start-up: written an hour
\* ago (stale), or one tick less than an hour ago (fresh until the next tick)
InitStamps == {0 - WindowTicks, 1 - WindowTicks}

VARIABLES
    now,        \* Date.now(), in ticks
    store,      \* Firestore document cpr_rankings/latest
    nivStore,   \* Firestore document niv_rankings/latest
    req,        \* the invocations of the rankings / niv functions
    resp,       \* the response sent by the last step, with the request it answers
    runs,       \* the child processes spawned by runPythonPipeline
    nreq,       \* number of requests received so far
    call,       \* a call of a function of the program: arguments and result
    chat,       \* an invocation of the chat function
    child       \* one pipeline child process, its events and its promise

\* the state outside the rankings and niv handlers
aux == <<call, chat, child>>

vars == <<now, store, nivStore, req, resp, runs, nreq, call, chat, child>>

\* A Firestore DocumentSnapshot: exists, and the fields of its data().
NoDoc == [exists |-> FALSE, league |-> 0, ts |-> 0, run |-> 0]

Snapshot(l, t, k) == [exists |-> TRUE, league |-> l, ts |-> t, run |-> k]

NoResp ==
    [kind |-> "none", status |-> 0, source |-> "", warning |-> FALSE,
     data |-> NoDoc, message |-> ""]

\* no response is sent in this step
NoSent == [id |-> 0, ep |-> "none", league |-> 0, force |-> FALSE, body |-> NoResp]

\* createResponse(data): {success: true, data, timestamp}, sent with status 200
createResponse(data, source, warning) ==
    [kind |-> "success", status |-> 200, source |-> source,
     warning |-> warning, data |-> data, message |-> ""]

\* handleError(error, context): {error: true, message, timestamp}
handleError(status, message) ==
    [kind |-> "error", status |-> status, source |-> "", warning |-> FALSE,
     data |-> NoDoc, message |-> message]

\* the platform ends an invocation that outlives timeoutSeconds
PlatformTimeoutResponse ==
    [kind |-> "timeout", status |-> 0, source |-> "", warning |-> FALSE,
     data |-> NoDoc, message |-> "function timed out"]

\* ---- decisions of the rankings handler ----

\* if (!forceRefresh) { ... cache check ... }
SkipCacheCheck_NeverSkips(force) == FALSE

SkipCacheCheck(force) == force

\* hoursSinceUpdate = (Date.now() - calculatedAt.getTime()) / 3600000;
\* if (hoursSinceUpdate < 1)
IsFresh_NeverFresh(doc, t) == FALSE

IsFresh_UpToOneHour(doc, t) == t - doc.ts <= WindowTicks

IsFresh(doc, t) == t - doc.ts < WindowTicks

\* the cache-hit result of the rankings handler: source 'cached', no warning
CachedResult_TaggedFresh(doc) == createResponse(doc, "fresh_calculation", FALSE)

CachedResult(doc) == createResponse(doc, "cached", FALSE)

\* the result after a successful pipeline run: source 'fresh_calculation'
FreshResult(doc) == createResponse(doc, "fresh_calculation", FALSE)

\* the result of the fallback: source 'cached_fallback' and a warning
FallbackResult_Rethrows(doc) == handleError(500, "Pipeline failed")

FallbackResult(doc) == createResponse(doc, "cached_fallback", TRUE)

\* ---- results of the niv handler ----
NivCachedResult(doc) == createResponse(doc, "cached", FALSE)

NivFallbackResult_TaggedCached(doc) == createResponse(doc, "cached", FALSE)

NivFallbackResult(doc) == createResponse(doc, "cached_fallback", FALSE)

\* ---- the store after a handler has read it ----

\* latestDoc.data() is a copy of the stored document: sorting its rankings
\* and building the result write nothing back, and the handlers call no
\* set() or update()
StoreAfterRead_Restamped(doc, t) ==
    IF doc.exists THEN [doc EXCEPT !.ts = t] ELSE doc

StoreAfterRead(doc, t) == doc

\* ---- state ----
IdleReq ==
    [ep |-> "none", pc |-> "idle", league |-> 0, force |-> FALSE,
     elapsed |-> 0]

\* an invocation that has ended
DoneReq == [IdleReq EXCEPT !.pc = "done"]

NoRun == [state |-> "none", league |-> 0]

\* no function is being called, no chat request and no child exist
NoCall == [fn |-> "none"]

NoChat == [pc |-> "none"]

NoChild == [state |-> "none"]

\* a child that has exited, or could not be started
Ended(outcome) == [state |-> outcome, league |-> 0]

Init ==
    /\ now = 0
    /\ store \in {NoDoc} \cup {Snapshot(DefaultLeague, t, 0) : t \in InitStamps}
    /\ nivStore = IF store.exists THEN Snapshot(0, store.ts, 0) ELSE NoDoc
    /\ req = [r \in ReqIds |-> IdleReq]
    /\ resp = NoSent
    /\ runs = [r \in ReqIds |-> NoRun]
    /\ nreq = 0
    /\ call = NoCall
    /\ chat = NoChat
    /\ child = NoChild

\* runPythonPipeline(leagueId): spawn the child, return the pending promise
Spawned(l) == [state |-> "running", league |-> l]

Active(r) == req[r].pc \notin {"idle", "done"}

\* response.status(..).json(..): the invocation ends
Respond(r, body) ==
    /\ req' = [req EXCEPT ![r] = DoneReq]
    /\ resp' = [id |-> r, ep |-> req[r].ep, league |-> req[r].league,
                force |-> req[r].force, body |-> body]

\* the catch of the whole handler: status 500 and handleError
Fail500(r, message) == Respond(r, handleError(500, message))

\* The league ids are opaque to the handlers: a request names a league that
\* the store, an invocation or a child already refers to, or one new league
\* (the least, which stands for every league not yet referred to).
UsedLeagues ==
    {l \in Leagues :
        \/ store.exists /\ store.league = l
        \/ \E r \in ReqIds : req[r].league = l \/ runs[r].league = l}

RequestLeagues ==
    LET new == Leagues \ UsedLeagues
    IN  UsedLeagues \cup {l \in new : \A m \in new : l <= m}

\* ---- the rankings handler ----

\* A request arrives: the handler runs up to its first await, which is the
\* cache read, or with refresh=true the pipeline promise.
RankingsRequest(l, force) ==
    /\ nreq < MaxRequests
    /\ LET r == nreq + 1 IN
       /\ nreq' = r
       /\ IF SkipCacheCheck(force)
          THEN /\ req' = [req EXCEPT ![r] =
                     [IdleReq EXCEPT !.ep = "rankings", !.pc = "await",
                         !.league = l, !.force = force]]
               /\ runs' = [runs EXCEPT ![r] = Spawned(l)]
          ELSE /\ req' = [req EXCEPT ![r] =
                     [IdleReq EXCEPT !.ep = "rankings", !.pc = "check",
                         !.league = l, !.force = force]]
               /\ UNCHANGED runs
    /\ resp' = NoSent
    /\ UNCHANGED <<aux, now, store, nivStore>>

\* The read of cpr_rankings/latest returns: cache hit, or start the pipeline.
CheckCache(r, ok) ==
    /\ req[r].ep = "rankings" /\ req[r].pc = "check"
    /\ IF ~ok
       THEN Fail500(r, "store read failed") /\ UNCHANGED runs
       ELSE IF store.exists /\ IsFresh(store, now)
       THEN Respond(r, CachedResult(store)) /\ UNCHANGED runs
       ELSE /\ req' = [req EXCEPT ![r].pc = "await"]
            /\ runs' = [runs EXCEPT ![r] = Spawned(req[r].league)]
            /\ resp' = NoSent
    /\ UNCHANGED <<aux, now, nivStore, nreq>>
    /\ store' = StoreAfterRead(store, now)

\* ---- the pipeline child process ----

\* the promise of runPythonPipeline settles; the handler, when it is still
\* alive and awaiting, resumes at the statement after the await
Settle(r, outcome) ==
    IF req[r].pc = "await"
    THEN req' = [req EXCEPT ![r].elapsed = 0,
                            ![r].pc = IF outcome = "resolved" THEN "readFresh"
                                      ELSE "fallback"]
    ELSE UNCHANGED req

\* scripts/pipeline.py saves the computed rankings to Firestore
PipelineWrite(k) ==
    /\ runs[k].state = "running"
    /\ runs' = [runs EXCEPT ![k].state = "written"]
    /\ store' = Snapshot(runs[k].league, now, k)
    /\ nivStore' = Snapshot(0, now, k)
    /\ resp' = NoSent
    /\ UNCHANGED <<aux, now, req, nreq>>

\* child.on('close', code) with code === 0
ChildCloseOk(k) ==
    /\ runs[k].state = "written"
    /\ runs' = [runs EXCEPT ![k] = Ended("closed")]
    /\ Settle(k, "resolved")
    /\ resp' = NoSent
    /\ UNCHANGED <<aux, now, store, nivStore, nreq>>

\* child.on('close', code) with code # 0
ChildCloseFail(k) ==
    /\ runs[k].state = "running"
    /\ runs' = [runs EXCEPT ![k] = Ended("failed")]
    /\ Settle(k, "rejected")
    /\ resp' = NoSent
    /\ UNCHANGED <<aux, now, store, nivStore, nreq>>

\* child.on('error'): the process could not be started
ChildError(k) ==
    /\ runs[k].state = "running"
    /\ runs' = [runs EXCEPT ![k] = Ended("failed")]
    /\ Settle(k, "rejected")
    /\ resp' = NoSent
    /\ UNCHANGED <<aux, now, store, nivStore, nreq>>

\* ---- the rankings handler after the pipeline ----

\* the read after a successful run; a missing document or a failed read
\* throws into the inner catch, which starts the fallback read
ReadFresh(r, ok) ==
    /\ req[r].ep = "rankings" /\ req[r].pc = "readFresh"
    /\ IF ok /\ store.exists
       THEN Respond(r, FreshResult(store))
       ELSE req' = [req EXCEPT ![r].pc = "fallback"] /\ resp' = NoSent
    /\ UNCHANGED <<aux, now, nivStore, runs, nreq>>
    /\ store' = StoreAfterRead(store, now)

\* the fallback read of the inner catch
Fallback(r, ok) ==
    /\ req[r].ep = "rankings" /\ req[r].pc = "fallback"
    /\ IF ~ok
       THEN Fail500(r, "store read failed")
       ELSE IF store.exists
       THEN Respond(r, FallbackResult(store))
       ELSE Fail500(r, "No CPR data available and pipeline failed")
    /\ UNCHANGED <<aux, now, nivStore, runs, nreq>>
    /\ store' = StoreAfterRead(store, now)

\* ---- the niv handler ----
NivRequest(force) ==
    /\ nreq < MaxRequests
    /\ LET r == nreq + 1 IN
       /\ nreq' = r
       /\ req' = [req EXCEPT ![r] =
              [IdleReq EXCEPT !.ep = "niv", !.force = force,
                  !.pc = IF SkipCacheCheck(force) THEN "fallback" ELSE "check"]]
    /\ resp' = NoSent
    /\ UNCHANGED <<aux, now, store, nivStore, runs>>

\* read of niv_rankings/latest, and on a hit the query of the teams
NivCheck(r, ok) ==
    /\ req[r].ep = "niv" /\ req[r].pc = "check"
    /\ IF ~ok
       THEN Fail500(r, "store read failed")
       ELSE IF nivStore.exists /\ IsFresh(nivStore, now)
       THEN Respond(r, NivCachedResult(nivStore))
       ELSE req' = [req EXCEPT ![r].pc = "fallback"] /\ resp' = NoSent
    /\ UNCHANGED <<aux, now, store, runs, nreq>>
    /\ nivStore' = StoreAfterRead(nivStore, now)

\* second read of niv_rankings/latest: 404, or the stored document with the
\* query of the teams
NivFallback(r, ok) ==
    /\ req[r].ep = "niv" /\ req[r].pc = "fallback"
    /\ IF ~ok
       THEN Fail500(r, "store read failed")
       ELSE IF ~nivStore.exists
       THEN Respond(r, handleError(404, "No NIV data available"))
       ELSE Respond(r, NivFallbackResult(nivStore))
    /\ UNCHANGED <<aux, now, store, runs, nreq>>
    /\ nivStore' = StoreAfterRead(nivStore, now)

\* ---- the platform ----

\* runWith({timeoutSeconds: 300}): the invocation is ended by the platform.
\* Only the wait for the pipeline lasts long enough to meet the timeout.
PlatformTimeout(r) ==
    /\ req[r].pc = "await"
    /\ req[r].elapsed >= TimeoutTicks
    /\ Respond(r, PlatformTimeoutResponse)
    /\ UNCHANGED <<aux, now, store, nivStore, runs, nreq>>

\* 300 seconds pass. A read of the store returns or fails well within a
\* tick, so only the wait for the pipeline lasts that long, and no
\* invocation outlives its timeout.
Tick ==
    /\ now < MaxTime
    /\ \A r \in ReqIds :
          Active(r) => (req[r].pc = "await" /\ req[r].elapsed < TimeoutTicks)
    /\ now' = now + 1
    /\ req' = [r \in ReqIds |->
                 IF Active(r) THEN [req[r] EXCEPT !.elapsed = @ + 1] ELSE req[r]]
    /\ resp' = NoSent
    /\ UNCHANGED <<aux, store, nivStore, runs, nreq>>

\* the rankings endpoint, the pipeline, the platform and the clock
RankingsNext ==
    \/ \E l \in RequestLeagues, force \in BOOLEAN : RankingsRequest(l, force)
    \/ \E r \in ReqIds, ok \in BOOLEAN : CheckCache(r, ok)
    \/ \E k \in ReqIds : PipelineWrite(k)
    \/ \E k \in ReqIds : ChildCloseOk(k)
    \/ \E k \in ReqIds : ChildCloseFail(k)
    \/ \E k \in ReqIds : ChildError(k)
    \/ \E r \in ReqIds, ok \in BOOLEAN : ReadFresh(r, ok)
    \/ \E r \in ReqIds, ok \in BOOLEAN : Fallback(r, ok)
    \/ \E r \in ReqIds : PlatformTimeout(r)
    \/ Tick

\* requests to the rankings endpoint only
RankingsSpec == Init /\ [][RankingsNext]_vars

\* both endpoints
Next ==
    \/ RankingsNext
    \/ \E force \in BOOLEAN : NivRequest(force)
    \/ \E r \in ReqIds, ok \in BOOLEAN : NivCheck(r, ok)
    \/ \E r \in ReqIds, ok \in BOOLEAN : NivFallback(r, ok)

Spec == Init /\ [][Next]_vars

\* both endpoints, every request for the default league (no league_id)
DefaultLeagueNext ==
    \/ \E force \in BOOLEAN : RankingsRequest(DefaultLeague, force)
    \/ \E r \in ReqIds, ok \in BOOLEAN : CheckCache(r, ok)
    \/ \E k \in ReqIds : PipelineWrite(k)
    \/ \E k \in ReqIds : ChildCloseOk(k)
    \/ \E k \in ReqIds : ChildCloseFail(k)
    \/ \E k \in ReqIds : ChildError(k)
    \/ \E r \in ReqIds, ok \in BOOLEAN : ReadFresh(r, ok)
    \/ \E r \in ReqIds, ok \in BOOLEAN : Fallback(r, ok)
    \/ \E r \in ReqIds : PlatformTimeout(r)
    \/ Tick
    \/ \E force \in BOOLEAN : NivRequest(force)
    \/ \E r \in ReqIds, ok \in BOOLEAN : NivCheck(r, ok)
    \/ \E r \in ReqIds, ok \in BOOLEAN : NivFallback(r, ok)

DefaultLeagueSpec == Init /\ [][DefaultLeagueNext]_vars

TypeOK ==
    /\ now \in 0..MaxTime
    /\ nreq \in 0..MaxRequests
    /\ \A r \in ReqIds : req[r].pc \in
          {"idle", "check", "await", "readFresh", "fallback", "done"}

\* ---- the state outside a function under study ----

main == <<now, store, nivStore, req, resp, runs, nreq>>

\* no request has been received by the rankings and niv handlers
Quiet ==
    /\ now = 0
    /\ store = NoDoc
    /\ nivStore = NoDoc
    /\ req = [r \in ReqIds |-> IdleReq]
    /\ resp = NoSent
    /\ runs = [r \in ReqIds |-> NoRun]
    /\ nreq = 0

\* the function of call returns
Return(result) == call' = [call EXCEPT !.done = TRUE, !.result = result]

\* ---- the rankings handler with the week parameter (functions/src/index.ts) ----

\* characters of the week query parameter
DigitChars == {"0", "1", "2"}

QueryChars == DigitChars \cup {"x"}

DigitValue(c) == CASE c = "0" -> 0 [] c = "1" -> 1 [] c = "2" -> 2

\* the texts of the week parameter, up to MaxQueryLen characters
QueryTexts == UNION {[1..n -> QueryChars] : n \in 0..MaxQueryLen}

\* a JavaScript number
Num(n) == [nan |-> FALSE, n |-> n]

NaN == [nan |-> TRUE, n |-> 0]

\* the value of a string of decimal digits
RECURSIVE Decimal(_)
Decimal(text) ==
    IF text = <<>> THEN 0
    ELSE 10 * Decimal(SubSeq(text, 1, Len(text) - 1)) + DigitValue(text[Len(text)])

\* the longest prefix of text made of digits
RECURSIVE DigitPrefix(_)
DigitPrefix(text) ==
    IF text = <<>> \/ Head(text) \notin DigitChars THEN <<>>
    ELSE <<Head(text)>> \o DigitPrefix(Tail(text))

\* parseInt(request.query.week): NaN for an absent parameter and for a text
\* that starts with no digit
parseInt(q) ==
    IF ~q.given \/ DigitPrefix(q.text) = <<>> THEN NaN
    ELSE Num(Decimal(DigitPrefix(q.text)))

\* !week, and the else branch of if (week): NaN and 0 are falsy
Falsy(v) == v.nan \/ v.n = 0

\* the weeks of the documents of cpr_rankings selected by league and season
WeekSets == SUBSET (0..MaxWeek)

\* cpr_rankings/latest as the handler sees it: exists, and its week
LatestDocs == {[exists |-> FALSE, week |-> 0]} \cup
              {[exists |-> TRUE, week |-> w] : w \in 0..MaxWeek}

MaxOf(S) == CHOOSE m \in S : \A x \in S : x <= m

\* the rankings handler of functions/src/index.ts
RankingsByWeek(q, latest, docs) ==
    LET week == parseInt(q) IN
    IF latest.exists /\ Falsy(week)
    THEN createResponse([week |-> latest.week], "", FALSE)
    ELSE IF docs = {}
    THEN handleError(404, "No CPR rankings found")
    ELSE LET docData == IF ~Falsy(week) THEN {w \in docs : w = week.n}
                        ELSE {MaxOf(docs)}
         IN  IF docData = {}
             THEN handleError(404, "No matching CPR rankings found")
             ELSE createResponse([week |-> MaxOf(docData)], "", FALSE)

WeekCalls ==
    {[fn |-> "rankings", query |-> [given |-> g, text |-> t], latest |-> l,
      docs |-> d, done |-> FALSE, result |-> NoResp] :
        g \in BOOLEAN, t \in QueryTexts, l \in LatestDocs, d \in WeekSets}

WeekInit ==
    /\ Quiet
    /\ call \in {c \in WeekCalls : c.query.given \/ c.query.text = <<>>}
    /\ chat = NoChat
    /\ child = NoChild

\* a request to the rankings function is handled
RankingsWeekRequest ==
    /\ call.fn = "rankings" /\ ~call.done
    /\ Return(RankingsByWeek(call.query, call.latest, call.docs))
    /\ UNCHANGED <<main, chat, child>>

WeekNext == RankingsWeekRequest

WeekSpec == WeekInit /\ [][WeekNext]_vars

\* ---- the result built from a stored snapshot (rankings handler) ----
\* cpr scores are multiples of ten; gini_coefficient and league_health are
\* counted in thousandths

CprScores == {10 * k : k \in 0..MaxScore}

\* stored gini_coefficient values over the whole range from 0 to 1
GiniGrid == {0, DefaultGini, 250, 500, 750, DefaultHealth, 1000}

Perms(n) == {p \in [1..n -> 1..n] : \A i, j \in 1..n : p[i] = p[j] => i = j}

\* the rankings array of a stored snapshot of n teams: the teams in
\* descending order of cpr, ties in either order, rank = position
StoredRankings(n) ==
    {[i \in 1..n |-> [team_id |-> pc[1][i], cpr |-> pc[2][pc[1][i]], rank |-> i]] :
        pc \in {x \in Perms(n) \X [1..n -> CprScores] :
                   \A i \in 1..n, j \in 1..n :
                       i < j => x[2][x[1][i]] >= x[2][x[1][j]]}}

\* the data() of a stored snapshot whose league_health is 1 - gini_coefficient
StoredData(n) ==
    {[rankings |-> r, gini_coefficient |-> g, league_health |-> 1000 - g] :
        r \in StoredRankings(n), g \in GiniGrid}

\* the comparator (a, b) => b.cpr - a.cpr leaves a before b
KeepsBefore_Ascending(a, b) == a.cpr - b.cpr <= 0

KeepsBefore(a, b) == b.cpr - a.cpr <= 0

\* Array.prototype.sort with that comparator: descending by cpr; the sort
\* is stable, teams of equal cpr keep their order
RECURSIVE SortByCpr(_)
SortByCpr(arr) ==
    IF arr = <<>> THEN <<>>
    ELSE LET last == arr[Len(arr)]
             front == SortByCpr(SubSeq(arr, 1, Len(arr) - 1))
             k == Cardinality({i \in 1..Len(front) : KeepsBefore(front[i], last)})
         IN  SubSeq(front, 1, k) \o <<last>> \o SubSeq(front, k + 1, Len(front))

\* value || fallback: a stored 0 is falsy and is replaced by the fallback
OrDefault(value, fallback) == IF value = 0 THEN fallback ELSE value

\* the result object of the rankings handler
ResultData(data) ==
    LET sortedRankings == SortByCpr(data.rankings) IN
    [rankings |-> sortedRankings,
     league_health |-> OrDefault(data.league_health, DefaultHealth),
     gini_coefficient |-> OrDefault(data.gini_coefficient, DefaultGini),
     total_teams |-> Len(sortedRankings)]

\* payload.league_health ?? 0.85, payload.gini_coefficient ?? 0.15: the
\* result always carries both fields, so the client takes them as sent;
\* (leagueHealth * 100).toFixed(1) + '%' and giniCoeff.toFixed(3)
ClientShown(payload) ==
    [health |-> [percent |-> payload.league_health \div 10,
                 tenths |-> payload.league_health % 10],
     gini |-> [units |-> payload.gini_coefficient \div 1000,
               thousandths |-> payload.gini_coefficient % 1000]]

SnapshotCalls(n) ==
    {[fn |-> "result", data |-> d, done |-> FALSE, result |-> NoResp] :
        d \in StoredData(n)}

SnapshotInit ==
    /\ Quiet
    /\ \E n \in 0..MaxTeams : call \in SnapshotCalls(n)
    /\ chat = NoChat
    /\ child = NoChild

\* the cache hit: the result is built from the stored snapshot
ServeCached ==
    /\ call.fn = "result" /\ ~call.done
    /\ Return(CachedResult(ResultData(call.data)))
    /\ UNCHANGED <<main, chat, child>>

\* after a successful run
ServeFresh ==
    /\ call.fn = "result" /\ ~call.done
    /\ Return(FreshResult(ResultData(call.data)))
    /\ UNCHANGED <<main, chat, child>>

\* after a failed run
ServeFallback ==
    /\ call.fn = "result" /\ ~call.done
    /\ Return(FallbackResult(ResultData(call.data)))
    /\ UNCHANGED <<main, chat, child>>

SnapshotNext == ServeCached \/ ServeFresh \/ ServeFallback

SnapshotSpec == SnapshotInit /\ [][SnapshotNext]_vars

\* ---- the order of the teams in a response ----

\* arr with its elements rearranged by q
Rearranged(arr, q) == [i \in 1..Len(arr) |-> arr[q[i]]]

\* the rankings arrays holding the team records of r in any order
Shuffled(r) == {Rearranged(r, q) : q \in Perms(Len(r))}

OrderInit ==
    /\ Quiet
    /\ \E n \in 0..MaxTeams : \E r \in StoredRankings(n) :
          call \in {[fn |-> "sort", rankings |-> a, done |-> FALSE,
                     result |-> <<>>] : a \in Shuffled(r)}
    /\ chat = NoChat
    /\ child = NoChild

\* (data?.rankings || []).sort((a, b) => b.cpr - a.cpr)
SortRankings ==
    /\ call.fn = "sort" /\ ~call.done
    /\ Return(SortByCpr(call.rankings))
    /\ UNCHANGED <<main, chat, child>>

OrderNext == SortRankings

OrderSpec == OrderInit /\ [][OrderNext]_vars

\* ---- the chat function ----

\* the delta.content of a streamed completion chunk
ContentValues == {"a", "b"}

\* what one reader.read() yields: a data line with content, a data line
\* without content, a data line that is no JSON, or the line data: [DONE]
ChunkKinds == ContentValues \cup {"empty", "invalid", "[DONE]"}

\* the handler of functions/src/index.ts answers with one JSON body; the
\* handler of the newer variant streams the completion
IdleChat(streaming) ==
    [pc |-> "idle", streaming |-> streaming, outcome |-> "none",
     body |-> NoResp, writes |-> <<>>, reads |-> 0, ended |-> FALSE,
     jsonCalls |-> 0]

\* response.status(status).json(body)
ChatJson(outcome, body) ==
    chat' = [chat EXCEPT !.pc = "done", !.outcome = outcome, !.body = body,
                         !.ended = TRUE, !.jsonCalls = @ + 1]

\* the body sent by the catch of the chat handler, with status 200
TroubleReply == createResponse([response |-> "had trouble contacting openrouter"], "", FALSE)

NoKeyReply == createResponse([response |-> "no api key"], "", FALSE)

AssistantReply == createResponse([response |-> "assistant"], "", FALSE)

\* a text/plain stream of data: lines, no JSON body
StreamBody ==
    [kind |-> "stream", status |-> 200, source |-> "", warning |-> FALSE,
     data |-> NoDoc, message |-> ""]

ChatInit ==
    /\ Quiet
    /\ call = NoCall
    /\ chat \in {IdleChat(streaming) : streaming \in BOOLEAN}
    /\ child = NoChild

\* POST chat: the messages check, the api key check, then the fetch
ChatRequest(valid, key) ==
    /\ chat.pc = "idle"
    /\ IF ~valid
       THEN ChatJson("invalid", handleError(400, "Messages array is required"))
       ELSE IF ~key
       THEN ChatJson("no_key", NoKeyReply)
       ELSE chat' = [chat EXCEPT !.pc = "fetch"]
    /\ UNCHANGED <<main, call, child>>

\* fetch rejects, or fetchRes.ok is false: the throw lands in the catch
FetchFails ==
    /\ chat.pc = "fetch"
    /\ ChatJson("upstream_failed", TroubleReply)
    /\ UNCHANGED <<main, call, child>>

\* fetchRes.ok: the JSON answer, or the start of the stream
FetchOk ==
    /\ chat.pc = "fetch"
    /\ IF chat.streaming
       THEN chat' = [chat EXCEPT !.pc = "stream"]
       ELSE ChatJson("answered", AssistantReply)
    /\ UNCHANGED <<main, call, child>>

\* reader.read() yields a chunk
StreamRead(kind) ==
    /\ chat.pc = "stream" /\ chat.reads < MaxChunks
    /\ chat' =
         IF kind \in ContentValues
         THEN [chat EXCEPT !.reads = @ + 1, !.writes = Append(@, kind),
                           !.body = StreamBody]
         ELSE IF kind = "[DONE]"
         THEN [chat EXCEPT !.reads = @ + 1, !.writes = Append(@, kind),
                           !.body = StreamBody, !.pc = "done",
                           !.outcome = "streamed", !.ended = TRUE]
         ELSE [chat EXCEPT !.reads = @ + 1]
    /\ UNCHANGED <<main, call, child>>

\* reader.read() yields done: response.end()
StreamEnd ==
    /\ chat.pc = "stream"
    /\ chat' = [chat EXCEPT !.pc = "done", !.outcome = "streamed",
                            !.body = StreamBody, !.ended = TRUE]
    /\ UNCHANGED <<main, call, child>>

\* reader.read() rejects: the catch calls response.status(200).json(...).
\* When nothing has been written yet this sends the JSON body; after a
\* write the headers are sent, json() throws in the catch and the response
\* is never ended
StreamThrows ==
    /\ chat.pc = "stream"
    /\ IF chat.writes = <<>>
       THEN ChatJson("upstream_failed", TroubleReply)
       ELSE chat' = [chat EXCEPT !.pc = "done", !.outcome = "upstream_failed",
                               !.jsonCalls = @ + 1]
    /\ UNCHANGED <<main, call, child>>

ChatNext ==
    \/ \E valid \in BOOLEAN, key \in BOOLEAN : ChatRequest(valid, key)
    \/ FetchFails
    \/ FetchOk
    \/ \E kind \in ChunkKinds : StreamRead(kind)
    \/ StreamEnd
    \/ StreamThrows

ChatSpec == ChatInit /\ [][ChatNext]_vars

\* ---- the event stream of a chat completion, read in chunks ----

\* The text of an event stream is a sequence of pieces: the prefix 'data: '
\* is the two pieces "data" and ": ", a JSON object is its opening piece,
\* the content and "}", the end marker is "[DONE" and "]", and LF is the
\* line feed. A chunk of a read is any non-empty run of pieces, so a read
\* may end inside the prefix, inside the JSON text or between the two line
\* feeds of an event.
LF == "\n"

\* data: {"choices":[{"delta":{"content":c}}]} and an empty line, as sent
\* by the upstream API
UpstreamEvent(c) == <<"data", ": ", "{choices:", c, "}", LF, LF>>

\* data: {"content":c} and an empty line, as written by the handler
ContentEvent(c) == <<"data", ": ", "{content:", c, "}", LF, LF>>

DoneData == <<"[DONE", "]">>

DoneEvent == <<"data", ": ">> \o DoneData \o <<LF, LF>>

RECURSIVE UpstreamText(_)
UpstreamText(deltas) ==
    IF deltas = <<>> THEN DoneEvent
    ELSE UpstreamEvent(Head(deltas)) \o UpstreamText(Tail(deltas))

\* the sequences of deltas of a completion
DeltaSeqs(n) == UNION {[1..k -> ContentValues] : k \in 0..n}

\* chunk.split('\n')
RECURSIVE SplitLines(_)
SplitLines(chunk) ==
    IF \A i \in 1..Len(chunk) : chunk[i] # LF
    THEN <<chunk>>
    ELSE LET i == CHOOSE i \in 1..Len(chunk) :
                      chunk[i] = LF /\ \A j \in 1..(i - 1) : chunk[j] # LF
         IN  <<SubSeq(chunk, 1, i - 1)>>
                 \o SplitLines(SubSeq(chunk, i + 1, Len(chunk)))

\* line.startsWith('data: ')
StartsWithData(line) == Len(line) >= 2 /\ line[1] = "data" /\ line[2] = ": "

\* line.slice(6)
SliceData(line) == SubSeq(line, 3, Len(line))

\* JSON.parse(data) and the read of the content: the content, "" when the
\* object carries none, "invalid" when JSON.parse throws
JsonContent(data, opening) ==
    IF Len(data) = 3 /\ data[1] = opening /\ data[3] = "}"
          /\ data[2] \in ContentValues
    THEN data[2]
    ELSE IF data = <<opening, "}">> THEN ""
    ELSE "invalid"

\* the for loop of the handler over the lines of one chunk
RECURSIVE ServerLines(_, _)
ServerLines(lines, st) ==
    IF lines = <<>> THEN st
    ELSE IF ~StartsWithData(Head(lines)) THEN ServerLines(Tail(lines), st)
    ELSE IF SliceData(Head(lines)) = DoneData
    THEN [st EXCEPT !.down = @ \o DoneEvent, !.hpc = "ended"]
    ELSE LET content == JsonContent(SliceData(Head(lines)), "{choices:") IN
         IF content \in ContentValues
         THEN ServerLines(Tail(lines),
                  [st EXCEPT !.down = @ \o ContentEvent(content),
                             !.forwarded = Append(@, content)])
         ELSE ServerLines(Tail(lines), st)

\* the for loop of sendMessage over the lines of one chunk
RECURSIVE ClientLines(_, _)
ClientLines(lines, st) ==
    IF lines = <<>> THEN st
    ELSE IF ~StartsWithData(Head(lines)) THEN ClientLines(Tail(lines), st)
    ELSE IF SliceData(Head(lines)) = DoneData
    THEN [st EXCEPT !.cpc = "finalized"]
    ELSE LET content == JsonContent(SliceData(Head(lines)), "{content:") IN
         IF content \in ContentValues
         THEN ClientLines(Tail(lines),
                  [st EXCEPT !.assistantText = Append(@, content)])
         ELSE ClientLines(Tail(lines), st)

\* the upstream answers with a stream: up is the text the handler has yet
\* to read, down the text written to the client and not yet read by it
StreamCalls(n) ==
    {[fn |-> "stream", deltas |-> d, up |-> UpstreamText(d), down |-> <<>>,
      forwarded |-> <<>>, assistantText |-> <<>>,
      hpc |-> "reading", cpc |-> "reading"] : d \in DeltaSeqs(n)}

StreamInit ==
    /\ Quiet
    /\ call \in StreamCalls(MaxDeltas)
    /\ chat = NoChat
    /\ child = NoChild

\* the handler: reader.read() yields the next n pieces of the upstream text
ServerRead(n) ==
    /\ call.fn = "stream" /\ call.hpc = "reading"
    /\ n \in 1..Len(call.up)
    /\ call' = ServerLines(SplitLines(SubSeq(call.up, 1, n)),
                   [call EXCEPT !.up = SubSeq(@, n + 1, Len(@))])
    /\ UNCHANGED <<main, chat, child>>

\* the handler: reader.read() yields done, response.end()
ServerDone ==
    /\ call.fn = "stream" /\ call.hpc = "reading" /\ call.up = <<>>
    /\ call' = [call EXCEPT !.hpc = "ended"]
    /\ UNCHANGED <<main, chat, child>>

\* sendMessage: reader.read() yields the next n pieces written by the handler
ClientRead(n) ==
    /\ call.fn = "stream" /\ call.cpc = "reading"
    /\ n \in 1..Len(call.down)
    /\ call' = ClientLines(SplitLines(SubSeq(call.down, 1, n)),
                   [call EXCEPT !.down = SubSeq(@, n + 1, Len(@))])
    /\ UNCHANGED <<main, chat, child>>

\* sendMessage: reader.read() yields done after the handler has ended the
\* response
ClientDone ==
    /\ call.fn = "stream" /\ call.cpc = "reading"
    /\ call.hpc = "ended" /\ call.down = <<>>
    /\ call' = [call EXCEPT !.cpc = "ended"]
    /\ UNCHANGED <<main, chat, child>>

StreamNext ==
    \/ \E n \in 1..Len(UpstreamText([i \in 1..MaxDeltas |-> "a"])) :
          ServerRead(n)
    \/ ServerDone
    \/ \E n \in 1..Len(UpstreamText([i \in 1..MaxDeltas |-> "a"])) :
          ClientRead(n)
    \/ ClientDone

StreamSpec == StreamInit /\ [][StreamNext]_vars

\* ---- saveMessageToConversation (web client) ----

\* the messages that calls of saveMessageToConversation save
SaveIds == 1..MaxSaves

\* message.tokens, the rough token estimate of a message
TokenCounts == 0..MaxTokens

\* the conversation document created by createConversation, and one that
\* already holds a message (message 0) of one token
StoredConversations ==
    {[messages |-> <<>>, tokenCount |-> 0],
     [messages |-> <<0>>, tokenCount |-> 1]}

\* updateDoc(docRef, {messages, tokenCount, updatedAt}) with the array and
\* the count computed from the data that getDoc returned
UpdatedDoc(data, message, tokens) ==
    [messages |-> Append(data.messages, message),
     tokenCount |-> data.tokenCount + tokens]

SaveInit ==
    /\ Quiet
    /\ call \in {[fn |-> "save", initial |-> d, doc |-> d,
                  tokens |-> t,
                  pc |-> [i \in SaveIds |-> "idle"],
                  data |-> [i \in SaveIds |-> d]] :
                    d \in StoredConversations,
                    t \in [SaveIds -> TokenCounts]}
    /\ chat = NoChat
    /\ child = NoChild

\* saveMessageToConversation(conversationId, message) is called, unawaited
CallSave(i) ==
    /\ call.fn = "save" /\ call.pc[i] = "idle"
    /\ call' = [call EXCEPT !.pc[i] = "read"]
    /\ UNCHANGED <<main, chat, child>>

\* await getDoc(docRef) returns the stored document, or throws into the
\* catch that logs the error
GetDoc(i, ok) ==
    /\ call.fn = "save" /\ call.pc[i] = "read"
    /\ call' = IF ok
               THEN [call EXCEPT !.pc[i] = "write", !.data[i] = call.doc]
               ELSE [call EXCEPT !.pc[i] = "failed"]
    /\ UNCHANGED <<main, chat, child>>

\* await updateDoc(...) writes, or throws into the catch
UpdateDoc(i, ok) ==
    /\ call.fn = "save" /\ call.pc[i] = "write"
    /\ call' = IF ok
               THEN [call EXCEPT !.pc[i] = "saved",
                        !.doc = UpdatedDoc(call.data[i], i, call.tokens[i])]
               ELSE [call EXCEPT !.pc[i] = "failed"]
    /\ UNCHANGED <<main, chat, child>>

SaveNext ==
    \/ \E i \in SaveIds : CallSave(i)
    \/ \E i \in SaveIds, ok \in BOOLEAN : GetDoc(i, ok)
    \/ \E i \in SaveIds, ok \in BOOLEAN : UpdateDoc(i, ok)

SaveSpec == SaveInit /\ [][SaveNext]_vars

\* ---- sendMessage and the current conversation (web client) ----

SendIds == 1..MaxSends

\* ids of conversation documents; 0 stands for null
ConversationIds == 1..MaxConversations

\* a call of sendMessage: prompt is the conversation its user message was
\* saved to, reply the one its assistant reply was saved to, placeholder
\* tells whether its streaming message is in chatMessages
IdleSend == [pc |-> "idle", prompt |-> 0, reply |-> 0, placeholder |-> FALSE]

\* chatMessages = [...] replaces the array, and with it every streaming
\* message that calls of sendMessage have pushed
WithoutPlaceholders(send) ==
    [i \in SendIds |-> [send[i] EXCEPT !.placeholder = FALSE]]

\* the user is signed in; no conversation exists, or conversation 1 exists
\* and is or is not the current one
ConverseInit ==
    /\ Quiet
    /\ call \in {[fn |-> "converse", current |-> c, docs |-> d,
                  next |-> Cardinality(d) + 1,
                  send |-> [i \in SendIds |-> IdleSend]] :
                    d \in {{}, {1}}, c \in {0, 1}}
    /\ call.current # 0 => call.current \in call.docs
    /\ chat = NoChat
    /\ child = NoChild

\* if (currentConversationId && currentUser) saveMessageToConversation(...):
\* the user message is saved to the conversation that is current now
PromptSaved(c, i, current) ==
    [c EXCEPT !.send[i].prompt = current, !.send[i].pc = "fetching"]

\* sendMessage is called: without a current conversation it awaits
\* createConversation, else it saves the user message and goes on to the
\* fetch
SendMessage(i) ==
    /\ call.fn = "converse" /\ call.send[i].pc = "idle"
    /\ call' = IF call.current = 0
               THEN [call EXCEPT !.send[i].pc = "creating"]
               ELSE PromptSaved(call, i, call.current)
    /\ UNCHANGED <<main, chat, child>>

\* createConversation returns to sendMessage: the id of a new document,
\* which becomes the current conversation, or null after an error
ConversationCreated(i, ok) ==
    /\ call.fn = "converse" /\ call.send[i].pc = "creating"
    /\ IF ok
       THEN /\ call.next \in ConversationIds
            /\ call' = PromptSaved(
                   [call EXCEPT !.docs = @ \cup {call.next},
                                !.next = @ + 1,
                                !.current = call.next],
                   i, call.next)
       ELSE call' = PromptSaved(call, i, call.current)
    /\ UNCHANGED <<main, chat, child>>

\* await fetch('/api/chat') returns: the streaming message is pushed to
\* chatMessages, or the request failed and the catch is entered
FetchResponds(i, ok) ==
    /\ call.fn = "converse" /\ call.send[i].pc = "fetching"
    /\ call' = IF ok
               THEN [call EXCEPT !.send[i].pc = "streaming",
                                 !.send[i].placeholder = TRUE]
               ELSE [call EXCEPT !.send[i].pc = "done"]
    /\ UNCHANGED <<main, chat, child>>

\* the reader meets data: [DONE]: when the streaming message is still in
\* chatMessages and a conversation is current, the reply is saved to the
\* conversation that is current now; or the stream ends without [DONE]
StreamFinished(i, marker) ==
    /\ call.fn = "converse" /\ call.send[i].pc = "streaming"
    /\ call' = IF marker /\ call.send[i].placeholder /\ call.current # 0
               THEN [call EXCEPT !.send[i].pc = "done",
                                 !.send[i].reply = call.current]
               ELSE [call EXCEPT !.send[i].pc = "done"]
    /\ UNCHANGED <<main, chat, child>>

\* loadConversation(c) after its getDoc: an existing conversation becomes
\* the current one and chatMessages its stored messages
LoadConversation(c) ==
    /\ call.fn = "converse" /\ c \in call.docs
    /\ call' = [call EXCEPT !.current = c,
                            !.send = WithoutPlaceholders(@)]
    /\ UNCHANGED <<main, chat, child>>

\* startNewConversation after its createConversation
StartNewConversation ==
    /\ call.fn = "converse" /\ call.next \in ConversationIds
    /\ call' = [call EXCEPT !.docs = @ \cup {call.next},
                            !.next = @ + 1,
                            !.current = call.next,
                            !.send = WithoutPlaceholders(@)]
    /\ UNCHANGED <<main, chat, child>>

\* deleteConversation(c) after its deleteDoc
DeleteConversation(c) ==
    /\ call.fn = "converse" /\ c \in call.docs
    /\ call' = IF call.current = c
               THEN [call EXCEPT !.docs = @ \ {c}, !.current = 0,
                                 !.send = WithoutPlaceholders(@)]
               ELSE [call EXCEPT !.docs = @ \ {c}]
    /\ UNCHANGED <<main, chat, child>>

ConverseNext ==
    \/ \E i \in SendIds : SendMessage(i)
    \/ \E i \in SendIds, ok \in BOOLEAN : ConversationCreated(i, ok)
    \/ \E i \in SendIds, ok \in BOOLEAN : FetchResponds(i, ok)
    \/ \E i \in SendIds, marker \in BOOLEAN : StreamFinished(i, marker)
    \/ \E c \in ConversationIds : LoadConversation(c)
    \/ StartNewConversation
    \/ \E c \in ConversationIds : DeleteConversation(c)

ConverseSpec == ConverseInit /\ [][ConverseNext]_vars

\* ---- the chat requests of the web client ----

\* file.type of a selected file; "none" stands for uploadedFile = null and
\* for a file_type that is undefined, which JSON.stringify leaves out
FileTypes == {"image/png", "text/csv", "text/html"}

\* validTypes of handleFileUpload
ValidTypes == {"image/png", "text/csv"}

\* let and const of the top level of app.js that the chat code uses
GlobalNames ==
    {"chatMessages", "currentConversationId", "uploadedFile",
     "conversations", "cache"}

\* names declared in the body of the function, outside its try block
FunctionNames(sender) ==
    IF sender = "sendMessage"
    THEN {"input", "message", "messageContent", "fileContent",
          "userMessage", "container", "userMessageHTML"}
    ELSE {"prompt"}

\* names declared with let or const inside the try block
TryNames(sender) ==
    IF sender = "sendMessage"
    THEN {"dbContext", "requestBody", "response", "streamingId", "reader",
          "decoder", "assistantText", "streamCompleted"}
    ELSE {"userMessage", "streamingId", "response", "reader", "decoder",
          "assistantContent", "streamingMessage"}

\* a catch block sees its parameter, the bindings of the function and the
\* globals; the bindings of the try block are out of scope, and none of
\* them has the name of a global
VisibleInCatch(sender) ==
    (GlobalNames \cup FunctionNames(sender) \cup {"error"})
        \ (TryNames(sender) \ (GlobalNames \cup FunctionNames(sender)))

\* the body of the request when nothing has been sent
NoBody == [messages |-> FALSE, file_content |-> "null", file_type |-> "none"]

\* if (!messages || !Array.isArray(messages)) 400, else the request goes on
ChatStatus(body) == IF body.messages THEN 200 ELSE 400

\* m.role === 'user' && file_content && file_type
FileAttached(body) ==
    body.messages /\ body.file_content # "null" /\ body.file_type # "none"

\* chatMessages.filter(m => m.id !== streamingId) and the push of the
\* apology, followed by renderChatMessages(): rendered tells that the
\* apology has been rendered
WithApology(c) ==
    [c EXCEPT !.chatMessages =
                  Append(SelectSeq(@, LAMBDA m : m # "placeholder"),
                         "apology"),
              !.rendered = TRUE]

ReferenceError(c) == [c EXCEPT !.raised = "ReferenceError"]

\* the catch block of sendMessage and of sendMessageToJaylen
CatchBlock(c) ==
    IF c.sender = "sendMessage"
    THEN IF "assistantText" \notin VisibleInCatch(c.sender)
         THEN ReferenceError(c)
         ELSE IF c.content THEN c
         ELSE IF c.chatMessages # <<>>
                    /\ "streamingId" \notin VisibleInCatch(c.sender)
         THEN ReferenceError(c)
         ELSE WithApology(c)
    ELSE IF c.chatMessages # <<>>
               /\ "streamingId" \notin VisibleInCatch(c.sender)
         THEN ReferenceError(c)
         ELSE WithApology(c)

IdleClient ==
    [fn |-> "client", sender |-> "none", pc |-> "idle",
     uploadedFile |-> "none", sentFile |-> "none", fileContent |-> "null",
     body |-> NoBody, status |-> 0, attached |-> FALSE,
     chatMessages |-> <<>>, content |-> FALSE, failed |-> FALSE,
     rendered |-> FALSE, raised |-> "none"]

\* the chat screen with no message, or with one earlier exchange
ClientInit ==
    /\ Quiet
    /\ call \in {[IdleClient EXCEPT !.chatMessages = m] :
                    m \in {<<>>, <<"user", "assistant">>}}
    /\ chat = NoChat
    /\ child = NoChild

\* handleFileUpload: a file of a valid type and size becomes the pending
\* file; any other file is refused with an alert and changes nothing
HandleFileUpload(type, sizeOk) ==
    /\ call.fn = "client" /\ call.pc \in {"idle", "context"}
    /\ type \in ValidTypes /\ sizeOk
    /\ call.uploadedFile # type
    /\ call' = [call EXCEPT !.uploadedFile = type]
    /\ UNCHANGED <<main, chat, child>>

\* sendMessage up to await loadDatabaseContext(): the pending file is read,
\* the user message is pushed, and uploadedFile is set to null
SendMessageCalled(readOk) ==
    /\ call.fn = "client" /\ call.pc = "idle"
    /\ call' = [call EXCEPT
                  !.sender = "sendMessage", !.pc = "context",
                  !.sentFile = call.uploadedFile,
                  !.fileContent =
                      IF call.uploadedFile # "none" /\ readOk
                      THEN "base64" ELSE "null",
                  !.chatMessages = Append(@, "user"),
                  !.uploadedFile = "none"]
    /\ UNCHANGED <<main, chat, child>>

\* sendMessage builds requestBody and posts it
PostChat ==
    /\ call.fn = "client" /\ call.pc = "context"
    /\ call' = [call EXCEPT
                  !.pc = "request",
                  !.body = [messages |-> TRUE,
                            file_content |-> call.fileContent,
                            file_type |-> call.uploadedFile]]
    /\ UNCHANGED <<main, chat, child>>

\* sendMessageToJaylen up to its fetch: the user message and the streaming
\* message are pushed, the body is {message, conversationId, userId}
SendMessageToJaylen ==
    /\ call.fn = "client" /\ call.pc = "idle"
    /\ call' = [call EXCEPT
                  !.sender = "sendMessageToJaylen", !.pc = "request",
                  !.chatMessages = @ \o <<"user", "placeholder">>,
                  !.body = NoBody]
    /\ UNCHANGED <<main, chat, child>>

\* await fetch returns: the fetch rejects, or the chat function answers; a
\* status other than 2xx is thrown, else sendMessage pushes its streaming
\* message
ChatAnswers(reachable) ==
    /\ call.fn = "client" /\ call.pc = "request"
    /\ call' =
         IF ~reachable
         THEN [call EXCEPT !.pc = "catch", !.failed = TRUE]
         ELSE IF ChatStatus(call.body) # 200
         THEN [call EXCEPT !.pc = "catch", !.failed = TRUE,
                           !.status = ChatStatus(call.body)]
         ELSE [call EXCEPT !.pc = "streaming",
                  !.status = 200,
                  !.attached = FileAttached(call.body),
                  !.chatMessages =
                      IF call.sender = "sendMessage"
                      THEN Append(@, "placeholder") ELSE @]
    /\ UNCHANGED <<main, chat, child>>

\* a read yields a data line with content
StreamContent ==
    /\ call.fn = "client" /\ call.pc = "streaming" /\ ~call.content
    /\ call' = [call EXCEPT !.content = TRUE]
    /\ UNCHANGED <<main, chat, child>>

\* the stream ends: the streaming message becomes the assistant message
StreamCompleted ==
    /\ call.fn = "client" /\ call.pc = "streaming"
    /\ call' = [call EXCEPT
                  !.pc = "done",
                  !.chatMessages =
                      [k \in 1..Len(@) |->
                          IF @[k] = "placeholder" THEN "assistant" ELSE @[k]]]
    /\ UNCHANGED <<main, chat, child>>

\* reader.read() rejects
StreamRejects ==
    /\ call.fn = "client" /\ call.pc = "streaming"
    /\ call' = [call EXCEPT !.pc = "catch", !.failed = TRUE]
    /\ UNCHANGED <<main, chat, child>>

\* the catch block runs
Catch ==
    /\ call.fn = "client" /\ call.pc = "catch"
    /\ call' = CatchBlock([call EXCEPT !.pc = "done"])
    /\ UNCHANGED <<main, chat, child>>

ClientNext ==
    \/ \E type \in FileTypes, sizeOk \in BOOLEAN : HandleFileUpload(type, sizeOk)
    \/ \E readOk \in BOOLEAN : SendMessageCalled(readOk)
    \/ PostChat
    \/ SendMessageToJaylen
    \/ \E reachable \in BOOLEAN : ChatAnswers(reachable)
    \/ StreamContent
    \/ StreamCompleted
    \/ StreamRejects
    \/ Catch

ClientSpec == ClientInit /\ [][ClientNext]_vars

\* ---- the Ingram index (calculate_team_ingram) ----

Positions == 1..NumPositions

RECURSIVE SumOver(_, _)
SumOver(f, S) ==
    IF S = {} THEN 0
    ELSE LET x == CHOOSE y \in S : TRUE IN f[x] + SumOver(f, S \ {x})

\* a group of n players: the number of players at each position
Groups(n) == {g \in [Positions -> 0..n] : SumOver(g, Positions) = n}

Size(g) == SumOver(g, Positions)

\* calculate_positional_hhi: the sum of the squared position shares,
\* as the fraction SquareSum(g) / Size(g)^2
SquareSum(g) == SumOver([p \in Positions |-> g[p] * g[p]], Positions)

\* 1 - (0.7 * starter_hhi + 0.3 * bench_hhi), as a fraction num / den
TeamIngram_BenchOnly(starters, bench) ==
    LET ns == Size(starters) * Size(starters)
        nb == Size(bench) * Size(bench)
    IN  [num |-> 10 * ns * nb - 10 * SquareSum(bench) * ns,
         den |-> 10 * ns * nb]

TeamIngram(starters, bench) ==
    LET ns == Size(starters) * Size(starters)
        nb == Size(bench) * Size(bench)
    IN  [num |-> 10 * ns * nb
                   - (7 * SquareSum(starters) * nb + 3 * SquareSum(bench) * ns),
         den |-> 10 * ns * nb]

IngramInit ==
    /\ Quiet
    /\ call \in {[fn |-> "ingram", starters |-> st, bench |-> b, done |-> FALSE,
                  result |-> [num |-> 0, den |-> 1]] :
                    st \in UNION {Groups(n) : n \in 2..MaxStarters},
                    b \in UNION {Groups(m) : m \in 1..MaxBench}}
    /\ chat = NoChat
    /\ child = NoChild

\* calculate_team_ingram(roster_id)
CalculateTeamIngram ==
    /\ call.fn = "ingram" /\ ~call.done
    /\ Return(TeamIngram(call.starters, call.bench))
    /\ UNCHANGED <<main, chat, child>>

IngramNext == CalculateTeamIngram

IngramSpec == IngramInit /\ [][IngramNext]_vars

\* ---- runPythonPipeline: the child process, its events and the promise ----

ExitCodes == 0..MaxExitCode

\* the promise returned by runPythonPipeline, the child just spawned
SpawnedChild ==
    [state |-> "running", stdout |-> 0, stderr |-> 0, errored |-> FALSE,
     code |-> 0, signal |-> FALSE, promise |-> "pending", decisions |-> 0,
     handler |-> "await"]

\* resolve(..) or reject(..): a promise settles once, a later call of
\* resolve or reject has no effect
SettlePromise_Overwrites(c, outcome) ==
    [c EXCEPT !.promise = outcome, !.decisions = @ + 1]

SettlePromise(c, outcome) ==
    IF c.promise = "pending"
    THEN [c EXCEPT !.promise = outcome, !.decisions = @ + 1]
    ELSE c

\* code === 0; the code of a child killed by a signal is null
CodeIsZero(code, signal) == ~signal /\ code = 0

PipelineInit ==
    /\ Quiet
    /\ call = NoCall
    /\ chat = NoChat
    /\ child = NoChild

\* runPythonPipeline(leagueId) is called
SpawnChild ==
    /\ child.state = "none"
    /\ child' = SpawnedChild
    /\ UNCHANGED <<main, call, chat>>

\* child.stdout.on('data'): stdout += data
StdoutData ==
    /\ child.state = "running" /\ child.stdout < MaxOutput
    /\ child' = [child EXCEPT !.stdout = @ + 1]
    /\ UNCHANGED <<main, call, chat>>

\* child.stderr.on('data'): stderr += data
StderrData ==
    /\ child.state = "running" /\ child.stderr < MaxOutput
    /\ child' = [child EXCEPT !.stderr = @ + 1]
    /\ UNCHANGED <<main, call, chat>>

\* child.on('error'): the process could not be started
ErrorEvent ==
    /\ child.state = "running" /\ child.stdout = 0 /\ child.stderr = 0
    /\ child' = SettlePromise([child EXCEPT !.state = "errored", !.errored = TRUE],
                              "rejected")
    /\ UNCHANGED <<main, call, chat>>

\* child.on('close', code): the process has exited with a code or was
\* killed by a signal; after a failed start the code is not 0
CloseEvent(code, signal) ==
    /\ child.state \in {"running", "errored"}
    /\ child.errored => ~CodeIsZero(code, signal)
    /\ child' = SettlePromise(
                    [child EXCEPT !.state = "closed",
                                  !.code = IF signal THEN 0 ELSE code,
                                  !.signal = signal],
                    IF CodeIsZero(code, signal) THEN "resolved" ELSE "rejected")
    /\ UNCHANGED <<main, call, chat>>

\* await runPythonPipeline(leagueId): the handler goes on after the await
\* when the promise is resolved, and in its catch when it is rejected
HandlerResumes ==
    /\ child.state # "none" /\ child.handler = "await"
    /\ child.promise # "pending"
    /\ child' = [child EXCEPT !.handler =
                    IF child.promise = "resolved" THEN "readFresh" ELSE "fallback"]
    /\ UNCHANGED <<main, call, chat>>

PipelineNext ==
    \/ SpawnChild
    \/ HandlerResumes
    \/ StdoutData
    \/ StderrData
    \/ ErrorEvent
    \/ \E code \in ExitCodes, signal \in BOOLEAN : CloseEvent(code, signal)

PipelineSpec == PipelineInit /\ [][PipelineNext]_vars

\* ---- the cache decision of the rankings and niv handlers ----

\* the values of Date.now() in the calls, in ticks since the epoch
NowValues == {MaxAge + 1, MaxAge + 2}

\* calculation_timestamp of the stored document: missing, a text that is
\* no date, or the date of tick t
Stamps(t) ==
    {[kind |-> "missing", t |-> 0], [kind |-> "invalid", t |-> 0]} \cup
    {[kind |-> "date", t |-> t - a] : a \in (0 - MaxSkew)..MaxAge}

\* new Date(data?.calculation_timestamp || 0).getTime(): a missing
\* timestamp gives the epoch, a text that is no date gives NaN
calculatedAt(stamp) ==
    IF stamp.kind = "missing" THEN Num(0)
    ELSE IF stamp.kind = "invalid" THEN NaN
    ELSE Num(stamp.t)

\* hoursSinceUpdate < 1: a comparison with NaN is false
LessThanOneHour(c, t) == ~c.nan /\ IsFresh([ts |-> c.n], t)

\* the handler up to the cache decision: answer from the cache, or go on
\* to runPythonPipeline (rankings) or to the stored document (niv)
CacheDecision(ep, exists, force, stamp, t) ==
    IF ~SkipCacheCheck(force) /\ exists /\ LessThanOneHour(calculatedAt(stamp), t)
    THEN "hit"
    ELSE IF ep = "rankings" THEN "compute" ELSE "stored"

DecisionInit ==
    /\ Quiet
    /\ \E t \in NowValues :
          call \in {[fn |-> "decide", ep |-> ep, now |-> t, exists |-> e,
                     force |-> f, stamp |-> st, done |-> FALSE,
                     result |-> "none"] :
                        ep \in {"rankings", "niv"}, e \in BOOLEAN,
                        f \in BOOLEAN, st \in Stamps(t)}
    /\ chat = NoChat
    /\ child = NoChild

\* a request is handled up to the cache decision
DecideCache ==
    /\ call.fn = "decide" /\ ~call.done
    /\ Return(CacheDecision(call.ep, call.exists, call.force, call.stamp,
                            call.now))
    /\ UNCHANGED <<main, chat, child>>

DecisionNext == DecideCache

DecisionSpec == DecisionInit /\ [][DecisionNext]_vars

\* ---- the claims ----

FailedRead(b) == b.kind = "error" /\ b.message = "store read failed"

NoDataError(b) ==
    b.kind = "error" /\ b.message = "No CPR data available and pipeline failed"

InFlight(k) == runs[k].state \in {"running", "written"}

RunFailed(k) == runs[k].state = "failed"

\* request r is answered in this step
Answered(r) == Active(r) /\ resp'.id = r

\* C1: a rankings request with force_refresh = false whose cache read finds
\* a snapshot younger than the freshness window is answered with that
\* snapshot, and starts no pipeline run.
C1_FreshHitStartsNoRun ==
    [][\A r \in ReqIds :
        (/\ req[r].ep = "rankings" /\ req[r].pc = "check" /\ ~req[r].force
         /\ req'[r].pc # "check"
         /\ store.exists /\ now - store.ts < WindowTicks
         /\ ~(resp'.id = r /\ resp'.body.kind \in {"error", "timeout"}))
        => /\ resp'.id = r
           /\ resp'.body.kind = "success"
           /\ resp'.body.data = store
           /\ runs'[r].state = "none"]_vars

C1_Witness ==
    /\ resp.ep = "rankings" /\ ~resp.force
    /\ resp.body.kind = "success" /\ resp.body.data.exists
    /\ now - resp.body.data.ts < WindowTicks
    /\ runs[resp.id].state = "none"

\* C2: a rankings request whose pipeline run failed (non-zero exit, or the
\* process could not be started) and whose fallback read finds a stale
\* snapshot is answered with that snapshot, as a success with
\* source = cached_fallback and a warning.
C2_StaleFallbackOnFailure ==
    [][\A r \in ReqIds :
        (/\ req[r].ep = "rankings" /\ req[r].pc = "fallback" /\ RunFailed(r)
         /\ req'[r].pc # "fallback"
         /\ store.exists /\ now - store.ts >= WindowTicks
         /\ ~(resp'.id = r /\ (FailedRead(resp'.body) \/ resp'.body.kind = "timeout")))
        => /\ resp'.id = r
           /\ resp'.body.kind = "success" /\ resp'.body.status = 200
           /\ resp'.body.source = "cached_fallback"
           /\ resp'.body.warning
           /\ resp'.body.data = store]_vars

C2_Witness ==
    /\ resp.ep = "rankings" /\ RunFailed(resp.id)
    /\ resp.body.source = "cached_fallback" /\ resp.body.warning
    /\ resp.body.data.exists
    /\ now - resp.body.data.ts >= WindowTicks

\* C3: at most one pipeline run per league is in flight at any time.
C3_AtMostOneRunInFlight ==
    \A l \in Leagues :
        Cardinality({k \in ReqIds : InFlight(k) /\ runs[k].league = l}) <= 1

\* C4: a rankings request that ends while its computation has not completed
\* ends with the prior snapshot tagged cached_fallback when one exists, and
\* with the no-data error when none exists.
C4_TimeoutFallsBack ==
    [][\A r \in ReqIds :
        (req[r].ep = "rankings" /\ Answered(r) /\ InFlight(r))
        => IF store.exists
           THEN /\ resp'.body.kind = "success"
                /\ resp'.body.source = "cached_fallback"
                /\ resp'.body.data = store
           ELSE NoDataError(resp'.body)]_vars

\* C5: with a readable store, a rankings request ends in an error only
\* when its computation failed (or did not complete) and the store holds no
\* snapshot, and ends with a successful response carrying data whenever a
\* snapshot exists.
C5_ErrorOnlyWithoutData ==
    [][\A r \in ReqIds :
        (req[r].ep = "rankings" /\ Answered(r) /\ ~FailedRead(resp'.body))
        => /\ resp'.body.kind # "success" =>
                ((RunFailed(r) \/ InFlight(r)) /\ ~store.exists)
           /\ store.exists =>
                (resp'.body.kind = "success" /\ resp'.body.data.exists)]_vars

C7_FallbackHasWarning ==
    resp.body.source = "cached_fallback" => resp.body.warning

\* C8: a rankings request with force_refresh = true has started a pipeline
\* run from the moment it is received, whatever the age of the stored
\* snapshot, and is never answered with the cache-hit tag.
C8_ForceStartsRun ==
    /\ \A r \in ReqIds :
          (req[r].ep = "rankings" /\ req[r].force) => runs[r].state # "none"
    /\ (resp.ep = "rankings" /\ resp.force)
          => (runs[resp.id].state # "none" /\ resp.body.source # "cached")

\* a forced request was answered while the store held, all along, a
\* snapshot younger than the window that no run has replaced
C8_Witness ==
    /\ resp.ep = "rankings" /\ resp.force
    /\ runs[resp.id].state # "none"
    /\ store.exists /\ store.run = 0 /\ now - store.ts < WindowTicks

\* C9: when a rankings request is answered with source = fresh_calculation,
\* the store holds the snapshot written by the run of that request, younger
\* than the freshness window.
C9_FreshAnswerIsOwnSnapshot ==
    [][\A r \in ReqIds :
        (/\ req[r].ep = "rankings" /\ Answered(r)
         /\ resp'.body.source = "fresh_calculation")
        => /\ store'.exists /\ store'.run = r
           /\ now' - store'.ts < WindowTicks
           /\ resp'.body.data = store']_vars

\* C10: the snapshot returned for a rankings request for league L is a
\* snapshot of league L.
C10_SnapshotOfRequestedLeague ==
    (resp.ep = "rankings" /\ resp.body.kind = "success")
        => resp.body.data.league = resp.league

\* the week query parameter names a week: it is a string of digits
NamesWeek(q) ==
    /\ q.given /\ q.text # <<>>
    /\ \A i \in 1..Len(q.text) : q.text[i] \in DigitChars

\* C11: a rankings request that names a week w, week 0 included, is
\* answered with a snapshot of week w or with a not-found error.
C11_NamedWeekAnswered ==
    (call.fn = "rankings" /\ call.done /\ NamesWeek(call.query))
        => \/ call.result.kind = "error" /\ call.result.status = 404
           \/ /\ call.result.kind = "success"
              /\ call.result.data.week = Decimal(call.query.text)

\* C12: in every rankings response with N teams the rank fields are a
\* permutation of 1..N, the teams are in descending order of cpr, and the
\* team at position i has rank i.
C12_RankIsPosition ==
    (call.fn = "result" /\ call.done)
        => LET r == call.result.data.rankings
               N == call.result.data.total_teams
           IN  /\ N = Len(call.data.rankings) /\ N = Len(r)
               /\ {r[i].rank : i \in 1..N} = 1..N
               /\ \A i \in 1..N : r[i].rank = i
               /\ \A i \in 1..N, j \in 1..N : i < j => r[i].cpr >= r[j].cpr

\* a response with at least three teams, two of them of equal cpr and one
\* of another cpr
C12_Witness ==
    /\ call.fn = "result" /\ call.done
    /\ LET r == call.result.data.rankings IN
       /\ Len(r) >= 3
       /\ \E i \in 1..Len(r), j \in 1..Len(r) : i # j /\ r[i].cpr = r[j].cpr
       /\ \E i \in 1..Len(r), j \in 1..Len(r) : r[i].cpr # r[j].cpr

\* C13: in every rankings response built from a stored snapshot whose
\* league_health is 1 - gini_coefficient, gini_coefficient lies in [0,1]
\* and league_health equals 1 - gini_coefficient, for every stored
\* gini_coefficient from 0 to 1.
C13_HealthIsOneMinusGini ==
    (call.fn = "result" /\ call.done)
        => /\ call.result.data.gini_coefficient \in 0..1000
           /\ call.result.data.league_health =
                  1000 - call.result.data.gini_coefficient

\* the stored snapshot of four teams of cpr 10
FourTens(data) ==
    /\ Len(data.rankings) = 4
    /\ \A i \in 1..4 : data.rankings[i].cpr = 10
    /\ data.gini_coefficient = 0 /\ data.league_health = 1000

\* C14: the response for four teams of cpr 10 reports gini_coefficient 0
\* and league_health 1, and in general the endpoint reports, and the
\* client shows, the gini_coefficient and league_health of the snapshot.
C14_ReportsStoredValues ==
    (call.fn = "result" /\ call.done)
        => /\ FourTens(call.data) =>
                 /\ call.result.data.gini_coefficient = 0
                 /\ call.result.data.league_health = 1000
           /\ call.result.data.gini_coefficient = call.data.gini_coefficient
           /\ call.result.data.league_health = call.data.league_health
           /\ ClientShown(call.result.data) = ClientShown(call.data)

\* C15: two stored snapshots that hold the same team records in different
\* array orders yield the same response order, also when several teams
\* have equal cpr.
C15_OrderIndependentOfStoredOrder ==
    (call.fn = "sort" /\ call.done)
        => \A q \in Perms(Len(call.rankings)) :
               SortByCpr(Rearranged(call.rankings, q)) = call.result

\* C16: handling a rankings or NIV request leaves the stored snapshots as
\* they are; a stored snapshot changes only in a step of a pipeline run,
\* which replaces the whole document by the snapshot it computed.
C16_StoreOnlyReplacedByRun ==
    [][/\ \A r \in ReqIds :
            (req'[r] # req[r] \/ resp'.id = r) /\ runs' = runs
                => (store' = store /\ nivStore' = nivStore)
       /\ (store' # store \/ nivStore' # nivStore)
            => \E k \in ReqIds :
                   /\ runs[k].state = "running" /\ runs'[k].state = "written"
                   /\ store' = Snapshot(runs[k].league, now, k)
                   /\ nivStore' = Snapshot(0, now, k)]_vars

\* a request was answered from the cache or from the fallback with the
\* snapshot that an earlier run had written, and that snapshot is still
\* in the store
C16_Witness ==
    /\ resp.body.source \in {"cached", "cached_fallback"}
    /\ store.exists /\ store.run # 0
    /\ resp.body.data \in {store, nivStore}

\* C17: every response of the chat endpoint is a JSON body of the success
\* shape for an operation that succeeded or of the error shape for one
\* that failed; a failed upstream call never yields the success shape.
C17_ShapeTellsOutcome ==
    chat.pc = "done"
        => /\ chat.body.kind \in {"success", "error"}
           /\ chat.outcome \in {"invalid", "upstream_failed"}
                 => chat.body.kind = "error"
           /\ chat.outcome \in {"answered", "streamed"}
                 => chat.body.kind = "success"

\* every starter plays one position
SinglePosition(g) == \E p \in Positions : g[p] = Size(g)

\* the starters are spread evenly over two or more positions
EvenSpread(g) ==
    /\ Cardinality({p \in Positions : g[p] > 0}) >= 2
    /\ \A p \in Positions, q \in Positions :
          (g[p] > 0 /\ g[q] > 0) => g[p] = g[q]

\* a is less than b, for fractions of positive denominators
FracLess(a, b) == a.num * b.den < b.num * a.den

\* C18: for every starter-group size n >= 2 and identical benches, a team
\* whose n starters all play one position has a strictly smaller Ingram
\* value than a team whose n starters are spread evenly over two or more
\* positions, and Ingram lies in [0,1].
C18_SinglePositionLessBalanced ==
    (call.fn = "ingram" /\ call.done)
        => /\ 0 <= call.result.num /\ call.result.num <= call.result.den
           /\ SinglePosition(call.starters)
                 => \A e \in Groups(Size(call.starters)) :
                        EvenSpread(e)
                            => FracLess(call.result, TeamIngram(e, call.bench))

\* the Ingram value of four starters at one position was computed; four
\* starters can be spread evenly over two positions
C18_Witness ==
    /\ call.fn = "ingram" /\ call.done
    /\ SinglePosition(call.starters) /\ Size(call.starters) = MaxStarters
    /\ \E e \in Groups(Size(call.starters)) :
          EvenSpread(e) /\ FracLess(call.result, TeamIngram(e, call.bench))

\* C19: a run counts as successful exactly when the pipeline process exits
\* with code 0, and as failed when it exits with another code, is killed
\* by a signal or cannot be started; the outcome of a run is decided
\* exactly once, also when an error event and a close event are delivered.
C19_OutcomeDecidedOnce ==
    /\ child.state = "running" => (child.promise = "pending" /\ child.decisions = 0)
    /\ child.state \in {"errored", "closed"} =>
          /\ child.decisions = 1
          /\ child.promise \in {"resolved", "rejected"}
          /\ child.promise = "resolved" <=>
                (child.state = "closed" /\ ~child.errored
                    /\ ~child.signal /\ child.code = 0)
          /\ child.handler = "readFresh" => child.promise = "resolved"
          /\ child.handler = "fallback" => child.promise = "rejected"

\* the error event and then the close event were delivered
C19_Witness ==
    /\ child.state = "closed" /\ child.errored
    /\ child.promise = "rejected" /\ child.decisions = 1
    /\ child.handler = "fallback"

\* the age of the stored snapshot of the call, in ticks
Age == call.now - call.stamp.t

\* C20 as stated: a stored snapshot is served as a cache hit if and only
\* if it exists, force_refresh is false and its age a satisfies
\* 0 <= a < 1 hour; a snapshot with a missing or unparseable timestamp, or
\* exactly one hour old, counts as stale and starts a computation.
C20_HitIffAgeInWindowAsStated ==
    (call.fn = "decide" /\ call.done)
        => /\ call.result = "hit" <=>
                (/\ call.exists /\ ~call.force
                 /\ call.stamp.kind = "date"
                 /\ 0 <= Age /\ Age < WindowTicks)
           /\ (call.stamp.kind # "date" \/ Age = WindowTicks)
                 => call.result = "compute"

\* C20 amended: a stored snapshot is served as a cache hit if and only if
\* it exists, force_refresh is false and its age is less than 1 hour, a
\* snapshot stamped later than the clock of the reader included; a snapshot
\* with a missing or unparseable timestamp, or exactly one hour old,
\* counts as stale: the rankings handler starts a computation, the niv
\* handler goes on to the stored document without computing.
C20_HitIffYoungerThanWindow ==
    (call.fn = "decide" /\ call.done)
        => /\ call.result = "hit" <=>
                (/\ call.exists /\ ~call.force
                 /\ call.stamp.kind = "date"
                 /\ Age < WindowTicks)
           /\ (call.stamp.kind # "date" \/ Age = WindowTicks)
                 => call.result =
                        IF call.ep = "rankings" THEN "compute" ELSE "stored"

\* a snapshot stamped later than the clock of the reader was served
C20_Witness ==
    /\ call.fn = "decide" /\ call.done
    /\ call.stamp.kind = "date" /\ Age < 0
    /\ call.result = "hit"


\* C21: a NIV request starts no pipeline run. A request with refresh = true
\* skips the cache check; a check that finds a document younger than the
\* freshness window answers with it tagged cached, and any other check goes
\* on to the second read, which answers with the stored document tagged
\* cached_fallback, or with the 404 error exactly when it finds no document.
C21_NivServesStoredDocument ==
    [][\A r \in ReqIds :
        req[r].ep = "niv"
        => /\ runs[r].state = "none" /\ runs'[r].state = "none"
           /\ req[r].force => req[r].pc # "check"
           /\ (req[r].pc = "check" /\ req'[r].pc = "fallback")
                => ~(nivStore.exists /\ now - nivStore.ts < WindowTicks)
           /\ (Answered(r) /\ ~FailedRead(resp'.body))
                => /\ (resp'.body.kind = "error" /\ resp'.body.status = 404)
                         <=> ~nivStore.exists
                   /\ nivStore.exists
                         => /\ resp'.body.kind = "success"
                            /\ resp'.body.data = nivStore
                            /\ resp'.body.source =
                                  IF req[r].pc = "check"
                                  THEN "cached" ELSE "cached_fallback"
                   /\ req[r].pc = "check"
                         => now - nivStore.ts < WindowTicks]_vars

\* a NIV request without refresh was answered with a stored document older
\* than the freshness window
C21_Witness ==
    /\ resp.ep = "niv" /\ ~resp.force
    /\ resp.body.source = "cached_fallback"
    /\ nivStore.exists /\ now - nivStore.ts >= WindowTicks
    /\ resp.body.data = nivStore


\* C22: once the chat handler has written a stream chunk to the client it
\* never calls response.status(...).json(...), also when a read of the
\* upstream stream fails midway; a request is answered by one response.
C22_NoJsonAfterStreamStarted ==
    /\ chat.pc # "none" => chat.jsonCalls <= 1
    /\ (chat.pc # "none" /\ chat.writes # <<>>) => chat.jsonCalls = 0


\* C23: however the upstream event stream is cut into read chunks, and the
\* stream of the handler into chunks read by the client, the content
\* written by the handler and the text assembled by the client are the
\* upstream deltas up to [DONE], each once and in order.
C23_ForwardsEveryDeltaOnce ==
    (call.fn = "stream" /\ call.hpc = "ended" /\ call.cpc # "reading")
        => /\ call.forwarded = call.deltas
           /\ call.assistantText = call.deltas


\* the number of places of the stored messages array that hold message m
Occurrences(m) ==
    Cardinality({k \in 1..Len(call.doc.messages) : call.doc.messages[k] = m})

\* C24: when all calls of saveMessageToConversation on one existing
\* conversation have completed, in whatever order their reads and writes
\* took place, the stored messages array holds every saved message exactly
\* once and the stored tokenCount is the sum of the token counts.
C24_EverySavedMessageStoredOnce ==
    (call.fn = "save" /\ \A i \in SaveIds : call.pc[i] = "saved")
        => /\ \A i \in SaveIds : Occurrences(i) = 1
           /\ call.doc.tokenCount =
                 call.initial.tokenCount
                    + SumOver([i \in SaveIds |-> call.tokens[i]], SaveIds)


\* C25: under every interleaving of sendMessage, loadConversation,
\* startNewConversation and deleteConversation, the assistant reply of a
\* send is saved only to the conversation its user message was saved to.
C25_ReplySavedWithItsPrompt ==
    call.fn = "converse"
        => \A i \in SendIds :
              call.send[i].reply # 0
                  => call.send[i].reply = call.send[i].prompt


\* the number of apology messages in chatMessages
Apologies ==
    Cardinality({k \in 1..Len(call.chatMessages) :
                    call.chatMessages[k] = "apology"})

\* C26: when a chat request of sendMessage or sendMessageToJaylen has
\* failed before any assistant content was received, the handler ends with
\* no streaming message in chatMessages, exactly one apology message
\* appended and rendered, and no further error raised.
C26_FailureShowsOneApology ==
    (call.fn = "client" /\ call.pc = "done" /\ call.failed /\ ~call.content)
        => /\ \A k \in 1..Len(call.chatMessages) :
                 call.chatMessages[k] # "placeholder"
           /\ Apologies = 1
           /\ call.chatMessages[Len(call.chatMessages)] = "apology"
           /\ call.rendered
           /\ call.raised = "none"

\* C27: when sendMessage is called with a file selected by
\* handleFileUpload, whose content it could read, the body of the chat
\* request carries the content and the type of that file, and the server
\* that accepts the request attaches the file to the user message.
C27_FileSentWithContentAndType ==
    (/\ call.fn = "client" /\ call.sender = "sendMessage"
     /\ call.sentFile # "none" /\ call.fileContent # "null")
        => /\ call.pc \in {"request", "streaming", "catch", "done"}
                 => /\ call.body.file_content = "base64"
                    /\ call.body.file_type = call.sentFile
           /\ call.status = 200 => call.attached

\* C28: every request of the web client to the chat endpoint carries a
\* messages array, and none is answered with the 400 error 'Messages array
\* is required'.
C28_EveryRequestCarriesMessages ==
    (call.fn = "client" /\ call.pc \in {"request", "streaming", "catch", "done"})
        => /\ call.body.messages
           /\ call.status # 400

====
